---------------------------- MODULE Spec2Model ----------------------------
(***************************************************************************)
(* A model of pycaustic's instruction evaluator (pycaustic/scraper.py):    *)
(* Scraper.scrape, _scrape_dict, _scrape_find, _scrape_load, _run_children *)
(* and Request, together with the collaborators the evaluator imports      *)
(* (templates.Substitution, patterns.Regex).                               *)
(*                                                                         *)
(* Text is a sequence of one-character strings.  Python's None is the      *)
(* value None below.  A template is a record tagged by `kind`:             *)
(*   [kind |-> "none"]                      the template None              *)
(*   [kind |-> "str", toks |-> <<tok...>>]  a string template              *)
(*   [kind |-> "dict", items |-> <<[k, v]...>>]  a mapping template        *)
(* and a token of a string template is one of                              *)
(*   [t |-> "lit", v |-> c]   the literal character c                      *)
(*   [t |-> "enc", v |-> n]   the placeholder {{n}}   (url-encoded)        *)
(*   [t |-> "raw", v |-> n]   the placeholder {{{n}}} (verbatim).          *)
(* An instruction is a record tagged by `kind` as well:                    *)
(*   [kind |-> "dict", d |-> f]   f a function from keys to values         *)
(*   [kind |-> "list", items |-> <<instruction...>>]                       *)
(*   [kind |-> "str", toks |-> ...]   a string (a reference template)      *)
(*   [kind |-> "other"]               any other Python value.              *)
(***************************************************************************)
EXTENDS Integers, Sequences, FiniteSets, TLC

VARIABLES
    instruction,  \* the caller's instruction object (scrape mutates it)
    instr0,       \* the instruction as the caller first built it
    tags,         \* the caller's tag map
    input,        \* the caller's input text
    force,        \* the caller's force argument
    history,      \* the outcome of each call made so far, oldest first
    calls,        \* what each call was given: its kind and its arguments
    fetchCalls,   \* how often the session's requester has been invoked
    tmpl,         \* the template a Substitution was last built from
    sub           \* that Substitution, and what reading its result gave

vars == <<instruction, instr0, tags, input, force, history, calls,
          fetchCalls, tmpl, sub>>

\* ------------------------------------------------------------------ bounds

MaxCalls == 2
MaxTmplLen == 2

\* ------------------------------------------------------------ Python values

None == <<"<None>">>

\* the truth value Python gives a text value or None
Truthy(v) == v # None /\ v # <<>>

\* dict.get(key, default)
Get(d, key, default) == IF key \in DOMAIN d THEN d[key] ELSE default

\* dict.pop(key): the dictionary left behind
Pop(d, key) == [k \in DOMAIN d \ {key} |-> d[k]]

\* a faulty dict.update(other): a key `d` already has keeps its value
UpdateKeepingOwn(d, other) ==
    [k \in DOMAIN d \cup DOMAIN other |-> IF k \in DOMAIN d THEN d[k] ELSE other[k]]

\* dict.update(other): every key of `other` is written over `d`
Update(d, other) ==
    [k \in DOMAIN d \cup DOMAIN other |-> IF k \in DOMAIN other THEN other[k] ELSE d[k]]

RECURSIVE Concat(_)
Concat(seqs) == IF seqs = <<>> THEN <<>> ELSE Head(seqs) \o Concat(Tail(seqs))

Contains(seq, x) == \E i \in 1..Len(seq) : seq[i] = x

\* ------------------------------------------------- templates.Substitution

NoneTemplate == [kind |-> "none"]
Str(toks) == [kind |-> "str", toks |-> toks]
Lit(c) == [t |-> "lit", v |-> c]
Enc(n) == [t |-> "enc", v |-> n]
Raw(n) == [t |-> "raw", v |-> n]

\* urllib's quote_plus over the model's characters
QuotePlus(c) ==
    CASE c = " " -> <<"+">>
      [] c = "+" -> <<"%", "2", "B">>
      [] c = "$0" -> <<"%", "2", "4", "0">>
      [] OTHER -> <<c>>

EncodeText(text) == Concat([i \in 1..Len(text) |-> QuotePlus(text[i])])

\* a faulty StrMissing: a name is listed again at each further use
RECURSIVE StrMissingRepeated(_, _, _)
StrMissingRepeated(toks, tagmap, acc) ==
    IF toks = <<>> THEN acc
    ELSE LET tok == Head(toks)
             absent == tok.t # "lit" /\ tok.v \notin DOMAIN tagmap
         IN StrMissingRepeated(Tail(toks), tagmap,
                               IF absent THEN Append(acc, tok.v) ELSE acc)

\* the names of the placeholders of `toks` that `tagmap` does not define, in
\* order of discovery, each once; `acc` holds those found so far
RECURSIVE StrMissing(_, _, _)
StrMissing(toks, tagmap, acc) ==
    IF toks = <<>> THEN acc
    ELSE LET tok == Head(toks)
             absent == tok.t # "lit" /\ tok.v \notin DOMAIN tagmap
                       /\ ~Contains(acc, tok.v)
         IN StrMissing(Tail(toks), tagmap,
                       IF absent THEN Append(acc, tok.v) ELSE acc)

\* a string template with every placeholder replaced by its tag's value
StrRender(toks, tagmap) ==
    Concat([i \in 1..Len(toks) |->
              CASE toks[i].t = "lit" -> <<toks[i].v>>
                [] toks[i].t = "raw" -> tagmap[toks[i].v]
                [] toks[i].t = "enc" -> EncodeText(tagmap[toks[i].v])])

RECURSIVE DictMissing(_, _, _)
DictMissing(items, tagmap, acc) ==
    IF items = <<>> THEN acc
    ELSE DictMissing(Tail(items), tagmap,
                     StrMissing(Head(items).v.toks, tagmap,
                                StrMissing(Head(items).k.toks, tagmap, acc)))

\* Substitution(template, tags): the object, with its missing_tags list and
\* the value its result property holds once nothing is missing
Substitution(template, tagmap) ==
    CASE template.kind = "none" ->
            [missing_tags |-> <<>>, value |-> None]
      [] template.kind = "str" ->
            LET missing == StrMissing(template.toks, tagmap, <<>>)
            IN [missing_tags |-> missing,
                value |-> IF missing = <<>> THEN StrRender(template.toks, tagmap)
                          ELSE None]
      [] template.kind = "dict" ->
            LET missing == DictMissing(template.items, tagmap, <<>>)
            IN [missing_tags |-> missing,
                value |-> IF missing = <<>>
                          THEN [i \in 1..Len(template.items) |->
                                  [k |-> StrRender(template.items[i].k.toks, tagmap),
                                   v |-> StrRender(template.items[i].v.toks, tagmap)]]
                          ELSE None]

\* reading Substitution.result: the value, or TemplateResultError raised
result(s) ==
    IF s.missing_tags = <<>> THEN [raised |-> FALSE, value |-> s.value]
    ELSE [raised |-> TRUE, exc |-> "TemplateResultError"]

\* Substitution.add_missing(*subs): the names missing from any of them
RECURSIVE add_missing(_)
add_missing(subs) ==
    IF subs = <<>> THEN <<>>
    ELSE LET rest == add_missing(Tail(subs))
             own == Head(subs).missing_tags
         IN own \o SelectSeq(rest, LAMBDA n : ~Contains(own, n))

\* ------------------------------------------------------------ patterns.Regex

\* whether pattern character `p` matches input character `c` ("." is any)
CharMatches(p, c) == p = "." \/ p = c

MatchesAt(pattern, text, pos) ==
    /\ pos + Len(pattern) - 1 <= Len(text)
    /\ \A i \in 1..Len(pattern) : CharMatches(pattern[i], text[pos + i - 1])

\* the matched texts of `pattern` in `text` from `pos` on: leftmost first, not
\* overlapping
RECURSIVE Occurrences(_, _, _)
Occurrences(pattern, text, pos) ==
    IF pos > Len(text) + 1 THEN <<>>
    ELSE IF MatchesAt(pattern, text, pos)
         THEN <<SubSeq(text, pos, pos + Len(pattern) - 1)>>
              \o Occurrences(pattern, text,
                             pos + (IF Len(pattern) = 0 THEN 1 ELSE Len(pattern)))
         ELSE Occurrences(pattern, text, pos + 1)

\* the replacement for one occurrence: $0 stands for the whole match
Expand(replace, match) ==
    Concat([i \in 1..Len(replace) |->
              IF replace[i] = "$0" THEN match ELSE <<replace[i]>>])

\* the occurrences whose index (from 0) lies in [min_match, max_match], where
\* max_match = -1 is no upper bound
Window(occ, min_match, max_match) ==
    LET keep == {i \in 1..Len(occ) :
                    /\ i - 1 >= min_match
                    /\ (max_match = -1 \/ i - 1 <= max_match)}
        RECURSIVE Pick(_)
        Pick(i) == IF i > Len(occ) THEN <<>>
                   ELSE (IF i \in keep THEN <<occ[i]>> ELSE <<>>) \o Pick(i + 1)
    IN Pick(1)

DefaultMinMatch == 0
DefaultMaxMatch == -1

\* Regex(pattern, ignore_case, multiline, dot_matches_all, replace): the
\* object, with the full match range it has when none is given
Regex(pattern, ignore_case, multiline, dot_matches_all, replace) ==
    [pattern |-> pattern, ignore_case |-> ignore_case, multiline |-> multiline,
     dot_matches_all |-> dot_matches_all, replace |-> replace,
     min_match |-> DefaultMinMatch, max_match |-> DefaultMaxMatch]

\* Regex.substitutions(input): the replacement of each honoured occurrence
substitutions(regex, text) ==
    LET occ == Window(Occurrences(regex.pattern, text, 1),
                      regex.min_match, regex.max_match)
    IN [i \in 1..Len(occ) |-> Expand(regex.replace, occ[i])]

\* ---------------------------------------------------------------- responses

MissingTags(req, names) == [type |-> "MissingTags", req |-> req, names |-> names]
Wait(req, name, description) ==
    [type |-> "Wait", req |-> req, name |-> name, description |-> description]
DoneLoad(req, name, description, res) ==
    [type |-> "DoneLoad", req |-> req, name |-> name,
     description |-> description, result |-> res]
DoneFind(req, name, description, results) ==
    [type |-> "DoneFind", req |-> req, name |-> name,
     description |-> description, results |-> results]
Reference(req, resps) == [type |-> "Reference", req |-> req, children |-> resps]
Failed(req, reason) == [type |-> "Failed", req |-> req, reason |-> reason]
Result(value, children) == [value |-> value, children |-> children]

\* how a call ends: it returns a Response or raises an exception
Return(resp) == [kind |-> "return", resp |-> resp]
Raise(exc) == [kind |-> "raise", exc |-> exc]

\* ------------------------------------------------------------------ Request

\* Request(instruction, tags, input, force, request_id, uri): the instruction
\* is deep-copied, so the request keeps it as it was when the call began.  The
\* id (a fresh uuid4 for each call) and the uri (the working directory) only
\* label a response and are left out.
Request(instr, tagmap, inp, frc) ==
    [instruction |-> instr, tags |-> tagmap, input |-> inp, force |-> frc]

\* ------------------------------------------------------------------ Scraper

\* Scraper._load_uri(string)
_load_uri(string) == Raise("NotImplementedError")

\* Scraper._run_children(input, then): the body is `pass`
_run_children(inp, then) == None

\* Scraper._scrape_find(req, instruction, description, then), `d` the
\* instruction's dictionary
_scrape_find(req, d, description, then) ==
    IF "find" \notin DOMAIN d THEN Raise("InvalidInstruction")
    ELSE
    LET findSub == Substitution(d["find"], req.tags)
        replaceSub == Substitution(Get(d, "replace", Str(<<Lit("$0")>>)), req.tags)
        nameSub == Substitution(Get(d, "name", NoneTemplate), req.tags)
        ignore_case == Get(d, "case_insensitive", FALSE)
        multiline == Get(d, "multiline", FALSE)
        dot_matches_all == Get(d, "dot_matches_all", TRUE)
        match_is_None == "match" \notin DOMAIN d
        min_match == IF match_is_None THEN Get(d, "min_match", DefaultMinMatch)
                     ELSE d["match"]
        max_match == IF match_is_None THEN Get(d, "max_match", DefaultMaxMatch)
                     ELSE d["match"]
        missing_tags == add_missing(<<findSub, replaceSub, nameSub>>)
    IN IF Len(missing_tags) # 0 THEN Return(MissingTags(req, missing_tags))
       ELSE
       LET name == IF Truthy(result(nameSub).value) THEN result(nameSub).value
                   ELSE result(findSub).value
           replace == result(replaceSub).value
           regex == Regex(result(findSub).value, ignore_case, multiline,
                          dot_matches_all, replace)
           subs == substitutions(regex, req.input)
           results == [i \in 1..Len(subs) |->
                         Result(subs[i], _run_children(subs[i], then))]
       IN IF Len(results) # 0 THEN Return(DoneFind(req, name, description, results))
          ELSE Return(Failed(req, [text |-> "No matches"]))

\* what the session's requester can do when it is invoked
FetchOutcomes ==
    {[kind |-> "response", status_code |-> 200, text |-> <<"a", "b">>],
     [kind |-> "response", status_code |-> 200, text |-> <<>>],
     [kind |-> "response", status_code |-> 404, text |-> <<"b">>],
     [kind |-> "RequestException"]}

HttpMethods == {"head", "get", "post"}

\* Scraper._scrape_load(req, instruction, force, description, then), `d` the
\* instruction's dictionary and `fetch` what the requester does if invoked:
\* the outcome, and how often the requester was invoked
_scrape_load(req, d, frc, description, then, fetch) ==
    IF "url" \notin DOMAIN d THEN [out |-> Raise("InvalidInstruction"), fetches |-> 0]
    ELSE IF Get(d, "method", "get") \notin HttpMethods
    THEN [out |-> Raise("InvalidInstruction"), fetches |-> 0]
    ELSE
    LET method == Get(d, "method", "get")
        urlSub == Substitution(d["url"], req.tags)
        nameSub == Substitution(Get(d, "name", NoneTemplate), req.tags)
        postsSub == Substitution(Get(d, "posts", NoneTemplate), req.tags)
        cookiesSub == Substitution(Get(d, "cookies", [kind |-> "dict", items |-> <<>>]),
                                   req.tags)
        headersSub == Substitution(Get(d, "headers", [kind |-> "dict", items |-> <<>>]),
                                   req.tags)
        missing_tags == add_missing(<<urlSub, nameSub, postsSub, cookiesSub>>)
    IN IF Len(missing_tags) # 0
       THEN [out |-> Return(MissingTags(req, missing_tags)), fetches |-> 0]
       ELSE
       LET url == result(urlSub).value
           name == IF Truthy(result(nameSub).value) THEN result(nameSub).value ELSE url
       IN IF ~("force" \in DOMAIN d /\ d["force"] = TRUE)
          THEN [out |-> Return(Wait(req, name, description)), fetches |-> 0]
          ELSE IF result(headersSub).raised
          THEN [out |-> Raise(result(headersSub).exc), fetches |-> 0]
          ELSE IF fetch.kind = "response"
          THEN IF fetch.status_code = 200
               THEN [out |-> Return(DoneLoad(req, name, description,
                                Result(fetch.text, _run_children(fetch.text, then)))),
                     fetches |-> 1]
               ELSE [out |-> Return(Failed(req, [text |-> "Status code",
                                                 code |-> fetch.status_code,
                                                 url |-> url])),
                     fetches |-> 1]
          \* the except clause names requests.exception, which the requests
          \* package does not have: looking it up raises AttributeError
          ELSE [out |-> Raise("AttributeError"), fetches |-> 1]

\* the `while 'extends' in instruction` loop of _scrape_dict: the dictionary
\* it leaves, and the exception that ended it, if one did
RECURSIVE ExtendLoop(_)
ExtendLoop(d) ==
    IF "extends" \notin DOMAIN d THEN [d |-> d, raised |-> FALSE]
    ELSE LET extends == d["extends"]
             popped == Pop(d, "extends")
         IN CASE extends.kind = "str" ->
                    [d |-> popped, raised |-> TRUE, out |-> _load_uri(extends)]
              [] extends.kind = "dict" -> ExtendLoop(Update(popped, extends.d))
              [] OTHER ->
                    [d |-> popped, raised |-> TRUE, out |-> Raise("InvalidInstruction")]

\* Scraper._scrape_dict(req, instruction), `d` the instruction's dictionary:
\* the outcome, the dictionary as the call leaves it (it is the caller's
\* object, popped from and updated in place) and the requester's invocations
_scrape_dict(req, d) ==
    LET then == Get(d, "then", <<>>)
        description == Get(d, "description", None)
        popped == Pop(Pop(d, "then"), "description")
        ext == ExtendLoop(popped)
    IN IF ext.raised THEN [out |-> ext.out, d |-> ext.d, fetches |-> 0]
       ELSE IF "find" \in DOMAIN ext.d
       THEN [out |-> _scrape_find(req, ext.d, description, then),
             d |-> ext.d, fetches |-> 0]
       ELSE IF "load" \in DOMAIN ext.d
       \* self._scrape_load(req, instruction, description, then): four
       \* arguments for the five parameters (req, instruction, force,
       \* description, then), so the call itself raises TypeError
       THEN [out |-> Raise("TypeError"), d |-> ext.d, fetches |-> 0]
       ELSE [out |-> Raise("InvalidInstruction"), d |-> ext.d, fetches |-> 0]

RECURSIVE scrape(_, _, _, _)

\* a faulty list loop: each item is scraped with the caller's force
RECURSIVE GroupLoopForced(_, _, _, _, _, _)
GroupLoopForced(items, i, resps, tagmap, inp, frc) ==
    IF i > Len(items)
    THEN [raised |-> FALSE, resps |-> resps, items |-> items, fetches |-> 0]
    ELSE LET r == scrape(items[i], tagmap, inp, frc)
             mutated == [items EXCEPT ![i] = r.instr]
         IN IF r.out.kind = "raise"
            THEN [raised |-> TRUE, out |-> r.out, items |-> mutated,
                  fetches |-> r.fetches]
            ELSE LET rest == GroupLoopForced(mutated, i + 1,
                                 Append(resps, r.out.resp), tagmap, inp, frc)
                 IN [rest EXCEPT !.fetches = @ + r.fetches]

\* the `for i in instruction` loop of scrape, from item `i` on, `resps` the
\* responses collected so far and `frc` the caller's force: each item is
\* scraped by a clone with force False, and an exception ends the loop
RECURSIVE GroupLoop(_, _, _, _, _, _)
GroupLoop(items, i, resps, tagmap, inp, frc) ==
    IF i > Len(items)
    THEN [raised |-> FALSE, resps |-> resps, items |-> items, fetches |-> 0]
    ELSE LET r == scrape(items[i], tagmap, inp, FALSE)
             mutated == [items EXCEPT ![i] = r.instr]
         IN IF r.out.kind = "raise"
            THEN [raised |-> TRUE, out |-> r.out, items |-> mutated,
                  fetches |-> r.fetches]
            ELSE LET rest == GroupLoop(mutated, i + 1,
                                 Append(resps, r.out.resp), tagmap, inp, frc)
                 IN [rest EXCEPT !.fetches = @ + r.fetches]

\* Scraper.scrape(instruction, tags, input, force): the outcome, the
\* caller's instruction object as the call leaves it, and the requester's
\* invocations
scrape(instr, tagmap, inp, frc) ==
    CASE instr.kind = "str" ->
            LET instructionSub == Substitution(instr, tagmap)
            IN IF instructionSub.missing_tags # <<>>
               \* MissingTags(self, instructionSub.missingTags): a
               \* Substitution has missing_tags and no missingTags
               THEN [out |-> Raise("AttributeError"), instr |-> instr, fetches |-> 0]
               ELSE [out |-> _load_uri(result(instructionSub).value),
                     instr |-> instr, fetches |-> 0]
      [] instr.kind = "list" ->
            LET req == Request(instr, tagmap, inp, frc)
                loop == GroupLoop(instr.items, 1, <<>>, tagmap, inp, frc)
                left == [instr EXCEPT !.items = loop.items]
            IN IF loop.raised
               THEN [out |-> loop.out, instr |-> left, fetches |-> loop.fetches]
               ELSE [out |-> Return(Reference(req, loop.resps)),
                     instr |-> left, fetches |-> loop.fetches]
      [] instr.kind = "dict" ->
            LET req == Request(instr, tagmap, inp, frc)
                r == _scrape_dict(req, instr.d)
            IN [out |-> r.out, instr |-> [instr EXCEPT !.d = r.d],
                fetches |-> r.fetches]
      [] OTHER ->
            [out |-> Raise("InvalidInstruction"), instr |-> instr, fetches |-> 0]

\* ------------------------------------------------------ the caller's inputs

TagNames == {"x", "y"}

\* the value a caller gives each tag
TagValue(n) == IF n = "x" THEN <<"a", " ">> ELSE <<"b">>

TagMaps == {[n \in S |-> TagValue(n)] : S \in SUBSET TagNames}

Inputs == {<<"a", "b", "a", " ", "a", "a">>, <<"b">>}

Step(d) == [kind |-> "dict", d |-> d]
Group(items) == [kind |-> "list", items |-> items]
DictTemplate(items) == [kind |-> "dict", items |-> items]

PatA == Str(<<Lit("a"), Lit(".")>>)
PatB == Str(<<Lit("b")>>)
Url == Str(<<Lit("u")>>)
UrlX == Str(<<Lit("u"), Enc("x")>>)

Find1 == Step("find" :> PatA)
Find2 == Step(("find" :> PatA) @@ ("description" :> <<"d">>) @@ ("then" :> <<Find1>>))
FindMin == Step(("find" :> PatA) @@ ("min_match" :> 1))
FindMax == Step(("find" :> PatA) @@ ("max_match" :> 1) @@ ("description" :> <<"d">>))
FindMinMax == Step(("find" :> PatA) @@ ("min_match" :> 1) @@ ("max_match" :> 1))
FindMatch0 == Step(("find" :> PatA) @@ ("match" :> 0))
FindMatch2 == Step(("find" :> PatA) @@ ("match" :> 2) @@ ("min_match" :> 0))
FindTags == Step(("find" :> Str(<<Raw("x")>>)) @@ ("name" :> Str(<<Lit("n"), Enc("y")>>))
                 @@ ("then" :> <<Find1>>))
FindReplace == Step(("find" :> PatA) @@ ("replace" :> Str(<<Lit("$0"), Enc("x")>>))
                    @@ ("name" :> Str(<<Lit("n")>>)))
Load1 == Step(("load" :> Url) @@ ("url" :> Url))
Load2 == Step(("load" :> Url) @@ ("url" :> UrlX) @@ ("force" :> TRUE)
              @@ ("description" :> <<"d">>) @@ ("then" :> <<Find1>>))
LoadHeaders == Step(("load" :> Url) @@ ("url" :> Url) @@ ("force" :> TRUE)
                    @@ ("headers" :> DictTemplate(<<[k |-> Str(<<Lit("h")>>),
                                                    v |-> Str(<<Enc("y")>>)]>>)))
LoadFields == Step(("load" :> Url) @@ ("url" :> UrlX) @@ ("method" :> "post")
                   @@ ("name" :> Str(<<Lit("n")>>)) @@ ("posts" :> Str(<<Raw("y")>>))
                   @@ ("cookies" :> DictTemplate(<<[k |-> Str(<<Enc("x")>>),
                                                   v |-> Str(<<Lit("c")>>)]>>))
                   @@ ("headers" :> DictTemplate(<<[k |-> Str(<<Lit("h")>>),
                                                   v |-> Str(<<Enc("y")>>)]>>)))
LoadForceFalse == Step(("load" :> Url) @@ ("url" :> Url) @@ ("force" :> FALSE))
LoadPut == Step(("load" :> Url) @@ ("url" :> Url) @@ ("method" :> "put"))
LoadNoUrl == Step(("load" :> Url) @@ ("force" :> TRUE))
UrlOnly == Step(("url" :> Url) @@ ("force" :> TRUE))
Both == Step(("find" :> PatA) @@ ("load" :> Url) @@ ("url" :> Url))
Neither == Step(("name" :> Str(<<Lit("n")>>)) @@ ("description" :> <<"d">>))
Extends1 == Step(("find" :> PatA)
                 @@ ("extends" :> Step(("find" :> PatB) @@ ("name" :> Str(<<Lit("n")>>)))))
Extends2 == Step(("find" :> Str(<<Lit(" ")>>)) @@ ("replace" :> Str(<<Lit("b")>>))
                 @@ ("description" :> <<"d">>)
                 @@ ("extends" :> Step(("find" :> PatA)
                        @@ ("extends" :> Step(("find" :> PatB)
                               @@ ("replace" :> Str(<<Lit("$0")>>)))))))
ExtendsStr == Step(("find" :> PatA) @@ ("extends" :> Str(<<Lit("r")>>)))
ExtendsOther == Step(("find" :> PatA) @@ ("extends" :> [kind |-> "other"]))
ExtendsLoad == Step(("load" :> Url) @@ ("url" :> Url) @@ ("extends" :> Find1))
ExtendsOnly == Step(("then" :> <<Find1>>) @@ ("extends" :> FindMin))

\* the instructions a caller evaluates
Instructions ==
    <<Find1, Find2, FindMin, FindMax, FindMinMax, FindMatch0, FindMatch2,
      FindTags, FindReplace,
      Load1, Load2, LoadHeaders, LoadFields, LoadForceFalse, LoadPut, LoadNoUrl,
      UrlOnly, Both, Neither,
      Extends1, Extends2, ExtendsStr, ExtendsOther, ExtendsLoad, ExtendsOnly,
      Group(<<>>), Group(<<Find2, FindMin>>), Group(<<Find1, Load1>>),
      Group(<<FindTags, Group(<<FindMatch0, Find2>>), Extends1>>),
      Group(<<Neither, Find1>>),
      Str(<<Lit("r"), Enc("x")>>), Str(<<Lit("r")>>), [kind |-> "other"]>>

\* the description and the `then` list a caller of _scrape_load passes
Descriptions == {None, <<"d">>}
Thens == {<<>>, <<Find1>>}

\* the string templates a Substitution is built from
Tokens == {Lit("a"), Lit(" "), Enc("x"), Raw("x"), Enc("y"), Raw("y")}
RECURSIVE TokenSeqs(_)
TokenSeqs(n) ==
    IF n = 0 THEN {<<>>}
    ELSE LET shorter == TokenSeqs(n - 1)
         IN shorter \cup {Append(s, t) : s \in shorter, t \in Tokens}
Templates == {Str(toks) : toks \in TokenSeqs(MaxTmplLen)}

\* ---------------------------------------------------------------- the calls

Init ==
    /\ \E i \in 1..Len(Instructions) : instruction = Instructions[i]
    /\ instr0 = instruction
    /\ tags \in TagMaps
    /\ input \in Inputs
    /\ force \in BOOLEAN
    /\ history = <<>>
    /\ calls = <<>>
    /\ fetchCalls = 0
    /\ tmpl = NoneTemplate
    /\ sub = [built |-> FALSE]

\* the caller evaluates its instruction: scrape(instruction, tags, input, force)
Scrape ==
    /\ Len(history) < MaxCalls
    /\ LET r == scrape(instruction, tags, input, force)
       IN /\ history' = Append(history, r.out)
          /\ calls' = Append(calls, [op |-> "scrape", instruction |-> instruction,
                                     tags |-> tags, input |-> input, force |-> force,
                                     fetches |-> r.fetches])
          /\ instruction' = r.instr
          /\ fetchCalls' = fetchCalls + r.fetches
    /\ UNCHANGED <<instr0, tags, input, force, tmpl, sub>>

\* the load handler is invoked with its five declared arguments
ScrapeLoad ==
    /\ Len(history) < MaxCalls
    /\ instruction.kind = "dict"
    /\ \E fetch \in FetchOutcomes, description \in Descriptions, then \in Thens :
         LET req == Request(instruction, tags, input, force)
             r == _scrape_load(req, instruction.d, force, description, then, fetch)
         IN /\ history' = Append(history, r.out)
            /\ calls' = Append(calls, [op |-> "_scrape_load", instruction |-> instruction,
                                       tags |-> tags, input |-> input, force |-> force,
                                       description |-> description, then |-> then,
                                       fetch |-> fetch, fetches |-> r.fetches])
            /\ fetchCalls' = fetchCalls + r.fetches
    /\ UNCHANGED <<instruction, instr0, tags, input, force, tmpl, sub>>

\* after a call the caller authorizes the next one with force = True
Authorize ==
    /\ history # <<>>
    /\ Len(history) < MaxCalls
    /\ force = FALSE
    /\ force' = TRUE
    /\ UNCHANGED <<instruction, instr0, tags, input, history, calls, fetchCalls,
                   tmpl, sub>>

\* after a MissingTags response the caller supplies the tags it names
SupplyTags ==
    /\ history # <<>>
    /\ Len(history) < MaxCalls
    /\ LET last == history[Len(history)]
       IN /\ last.kind = "return"
          /\ last.resp.type = "MissingTags"
          /\ tags' = [n \in {last.resp.names[i] : i \in 1..Len(last.resp.names)}
                         |-> TagValue(n)] @@ tags
    /\ UNCHANGED <<instruction, instr0, input, force, history, calls, fetchCalls,
                   tmpl, sub>>

\* a Substitution is built from a string template and its result is read
Substitute ==
    /\ sub.built = FALSE
    /\ \E t \in Templates :
         LET s == Substitution(t, tags)
         IN /\ tmpl' = t
            /\ sub' = [built |-> TRUE, missing_tags |-> s.missing_tags,
                       read |-> result(s)]
    /\ UNCHANGED <<instruction, instr0, tags, input, force, history, calls,
                   fetchCalls>>

Next == Scrape \/ Authorize \/ SupplyTags

NextLoad == ScrapeLoad \/ Authorize \/ SupplyTags

\* the evaluator as its callers use it
Spec == Init /\ [][Next]_vars

\* the load handler called with its declared signature
SpecLoad == Init /\ [][NextLoad]_vars

\* the substitution engine on its own
SpecSubstitution == Init /\ [][Substitute]_vars

\* ------------------------------------------------------ what the claims use

\* the names of the placeholders of a template
PlaceholderNames(template) ==
    CASE template.kind = "none" -> {}
      [] template.kind = "str" ->
            {template.toks[i].v : i \in {j \in 1..Len(template.toks) :
                                           template.toks[j].t # "lit"}}
      [] template.kind = "dict" ->
            UNION {{template.items[i].k.toks[j].v :
                        j \in {n \in 1..Len(template.items[i].k.toks) :
                                 template.items[i].k.toks[n].t # "lit"}}
                   \cup {template.items[i].v.toks[j].v :
                        j \in {n \in 1..Len(template.items[i].v.toks) :
                                 template.items[i].v.toks[n].t # "lit"}}
                   : i \in 1..Len(template.items)}

Elements(seq) == {seq[i] : i \in 1..Len(seq)}

\* the placeholder names of a load step's five templated fields that the
\* tags do not define
LoadFieldsMissing(d, tagmap) ==
    UNION {PlaceholderNames(d[k]) :
             k \in DOMAIN d \cap {"url", "name", "posts", "cookies", "headers"}}
    \ DOMAIN tagmap

\* a well-formed load step: `load` and no `find`, a url and a legal method
IsLoadStep(instr) ==
    /\ instr.kind = "dict"
    /\ "load" \in DOMAIN instr.d
    /\ {"find", "extends"} \cap DOMAIN instr.d = {}
    /\ "url" \in DOMAIN instr.d
    /\ Get(instr.d, "method", "get") \in HttpMethods

\* what _scrape_load can be handed: a url and a legal method
HasLoadFields(instr) ==
    /\ instr.kind = "dict"
    /\ "url" \in DOMAIN instr.d
    /\ Get(instr.d, "method", "get") \in HttpMethods

\* the name a load step goes by: its resolved name, or else its resolved url
LoadName(d, tagmap) ==
    LET name == Substitution(Get(d, "name", NoneTemplate), tagmap).value
    IN IF Truthy(name) THEN name ELSE Substitution(d["url"], tagmap).value

\* the instruction object as call i left it
After(i) == IF i < Len(calls) THEN calls[i + 1].instruction ELSE instruction

\* C1: a load step whose fields all resolve, evaluated without force, gives
\* Wait(request, name, description) and invokes no fetch; a fetch happens
\* only in an evaluation whose caller passed force = True.
C1_UnforcedLoadWaits ==
    \A i \in 1..Len(calls) :
        LET c == calls[i]
        IN /\ (/\ IsLoadStep(c.instruction)
               /\ LoadFieldsMissing(c.instruction.d, c.tags) = {}
               /\ c.force # TRUE)
              => /\ history[i] = Return(Wait(
                        Request(c.instruction, c.tags, c.input, c.force),
                        LoadName(c.instruction.d, c.tags),
                        Get(c.instruction.d, "description", None)))
                 /\ c.fetches = 0
           /\ c.fetches > 0 => c.force = TRUE

\* C2: a load step with a placeholder name absent from the tags in any of
\* url, name, posts, cookies, headers gives MissingTags(request, names), names
\* being all the absent names of the five fields, and no fetch is attempted.
C2_LoadReportsAllMissingTags ==
    \A i \in 1..Len(calls) :
        LET c == calls[i]
        IN (/\ HasLoadFields(c.instruction)
            /\ LoadFieldsMissing(c.instruction.d, c.tags) # {})
           => /\ history[i].kind = "return"
              /\ history[i].resp.type = "MissingTags"
              /\ history[i].resp.req
                    = Request(c.instruction, c.tags, c.input, c.force)
              /\ Elements(history[i].resp.names)
                    = LoadFieldsMissing(c.instruction.d, c.tags)
              /\ c.fetches = 0

\* C3: a load step evaluated with force = True whose fetch succeeds with
\* body B gives DoneLoad whose result has value B and, as children, the
\* responses of the `then` instructions, in order, each evaluated with input
\* B, the same tags and force False.
C3_ForcedLoadRunsChildren ==
    \A i \in 1..Len(calls) :
        LET c == calls[i]
        IN (/\ c.op = "_scrape_load"
            /\ HasLoadFields(c.instruction)
            /\ LoadFieldsMissing(c.instruction.d, c.tags) = {}
            /\ c.force = TRUE
            /\ c.fetch.kind = "response"
            /\ c.fetch.status_code = 200)
           => /\ history[i].kind = "return"
              /\ history[i].resp.type = "DoneLoad"
              /\ history[i].resp.result.value = c.fetch.text
              /\ history[i].resp.result.children # None
              /\ history[i].resp.result.children
                    = [j \in 1..Len(c.then) |->
                         scrape(c.then[j], c.tags, c.fetch.text, FALSE).out.resp]

\* the exceptions that report a faulty instruction, and the one that reports
\* that no resolver of remote instructions is there
FatalErrors == {"InvalidInstruction", "TemplateError", "NotImplementedError"}

\* C4: a runtime condition is returned as a Response and never raised: only
\* a faulty instruction ends a call with an exception; a string reference
\* with absent tags gives MissingTags and an unauthorized load gives Wait.
C4_RuntimeConditionsAreResponses ==
    \A i \in 1..Len(calls) :
        LET c == calls[i]
        IN /\ history[i].kind = "raise" => history[i].exc \in FatalErrors
           /\ (c.instruction.kind = "str"
               /\ PlaceholderNames(c.instruction) \ DOMAIN c.tags # {})
              => /\ history[i].kind = "return"
                 /\ history[i].resp.type = "MissingTags"
           /\ (/\ IsLoadStep(c.instruction)
               /\ LoadFieldsMissing(c.instruction.d, c.tags) = {}
               /\ c.force # TRUE)
              => /\ history[i].kind = "return"
                 /\ history[i].resp.type = "Wait"

\* a find step with nothing to merge whose templates all resolve
IsResolvedFindStep(instr, tagmap) ==
    /\ instr.kind = "dict"
    /\ "find" \in DOMAIN instr.d
    /\ {"load", "extends"} \cap DOMAIN instr.d = {}
    /\ UNION {PlaceholderNames(instr.d[k]) :
                k \in DOMAIN instr.d \cap {"find", "replace", "name"}}
       \subseteq DOMAIN tagmap

\* the replacements of the occurrences of a find step's pattern in `text`
\* whose index lies in the step's window: [min_match, max_match], or [k, k]
\* when match = k is given
WindowedResults(d, tagmap, text) ==
    LET lo == IF "match" \in DOMAIN d THEN d["match"]
              ELSE Get(d, "min_match", DefaultMinMatch)
        hi == IF "match" \in DOMAIN d THEN d["match"]
              ELSE Get(d, "max_match", DefaultMaxMatch)
        pattern == Substitution(d["find"], tagmap).value
        replace == Substitution(Get(d, "replace", Str(<<Lit("$0")>>)), tagmap).value
        occ == Window(Occurrences(pattern, text, 1), lo, hi)
    IN [i \in 1..Len(occ) |-> Expand(replace, occ[i])]

\* C5: DoneFind.results holds, in order, exactly the occurrences whose index
\* lies in [min_match, max_match] (defaults 0 and -1, -1 being no upper
\* bound), and match = k selects exactly the k-th occurrence.
C5_FindHonoursMatchWindow ==
    \A i \in 1..Len(calls) :
        LET c == calls[i]
            expected == WindowedResults(c.instruction.d, c.tags, c.input)
        IN (/\ c.op = "scrape"
            /\ IsResolvedFindStep(c.instruction, c.tags)
            /\ history[i].kind = "return"
            /\ history[i].resp.type = "DoneFind")
           => [j \in 1..Len(history[i].resp.results) |->
                 history[i].resp.results[j].value] = expected

\* the keys a step has once its inline `extends` objects are merged in
MergedKeys(d) == DOMAIN ExtendLoop(Pop(Pop(d, "then"), "description")).d

MergesCleanly(d) == ~ExtendLoop(Pop(Pop(d, "then"), "description")).raised

FindResponses == {"DoneFind", "Failed", "MissingTags"}

\* C6: a step is handled as a find only when it has `find` and no `load`, as
\* a load only when it has `load` and no `find`, and raises
\* InvalidInstruction when it has neither key and when it has both.
C6_DispatchOnExactlyOneKey ==
    \A i \in 1..Len(calls) :
        LET c == calls[i]
            keys == MergedKeys(c.instruction.d)
            handledAsFind == /\ history[i].kind = "return"
                             /\ history[i].resp.type \in FindResponses
                             /\ "find" \in keys
        IN (c.op = "scrape" /\ c.instruction.kind = "dict"
            /\ MergesCleanly(c.instruction.d))
           => /\ handledAsFind => "load" \notin keys
              /\ ("find" \in keys /\ "load" \notin keys) => handledAsFind
              /\ ("load" \in keys /\ "find" \notin keys)
                 => history[i] # Raise("TypeError")
              /\ ("find" \in keys <=> "load" \in keys)
                 => history[i] = Raise("InvalidInstruction")

\* the outcome of evaluating item j of a list on its own, unauthorized
ItemOutcome(c, j) == scrape(c.instruction.items[j], c.tags, c.input, FALSE).out

\* the items of a list whose own evaluation raises
RaisingItems(c) ==
    {j \in 1..Len(c.instruction.items) : ItemOutcome(c, j).kind = "raise"}

C8_EvaluationLeavesInstructionAlone ==
    /\ instruction = instr0
    /\ \A i, j \in 1..Len(calls) :
          (/\ calls[i].tags = calls[j].tags
           /\ calls[i].input = calls[j].input
           /\ calls[i].force = calls[j].force)
          => history[i] = history[j]

\* the string template of tokens `toks` with each placeholder replaced by the
\* tag's value: as it stands for {{{name}}}, url-encoded for {{name}}
RECURSIVE Rendered(_, _)
Rendered(toks, tagmap) ==
    IF toks = <<>> THEN <<>>
    ELSE LET tok == Head(toks)
             piece == IF tok.t = "lit" THEN <<tok.v>>
                      ELSE IF tok.t = "raw" THEN tagmap[tok.v]
                      ELSE EncodeText(tagmap[tok.v])
         IN piece \o Rendered(Tail(toks), tagmap)

\* C9: missing_tags is exactly the placeholder names of the template that
\* the tags lack, each once; reading result raises TemplateResultError if
\* and only if missing_tags is not empty, and otherwise gives the template
\* with every placeholder replaced by its tag's value.
C9_MissingTagsGuardResult ==
    sub.built
    => /\ Elements(sub.missing_tags) = PlaceholderNames(tmpl) \ DOMAIN tags
       /\ \A i, j \in 1..Len(sub.missing_tags) :
             sub.missing_tags[i] = sub.missing_tags[j] => i = j
       /\ sub.read.raised <=> sub.missing_tags # <<>>
       /\ sub.read.raised => sub.read.exc = "TemplateResultError"
       /\ ~sub.read.raised => sub.read.value = Rendered(tmpl.toks, tags)

\* a template that uses one absent name twice and one present name was
\* built, and reading its result raised
C9_Witness ==
    /\ sub.built
    /\ Len(tmpl.toks) = 2
    /\ tmpl.toks[1].t = "enc"
    /\ tmpl.toks[2].t = "raw"
    /\ tmpl.toks[1].v = tmpl.toks[2].v
    /\ sub.missing_tags = <<tmpl.toks[1].v>>
    /\ sub.read.raised
    /\ DOMAIN tags # {}

\* the inline `extends` objects of a step, the outermost first
RECURSIVE ExtendsChain(_)
ExtendsChain(d) ==
    IF "extends" \notin DOMAIN d \/ d["extends"].kind # "dict" THEN <<>>
    ELSE <<Pop(d["extends"].d, "extends")>> \o ExtendsChain(d["extends"].d)

\* whether every `extends` of a step, nested ones too, is an inline object
RECURSIVE ExtendsInline(_)
ExtendsInline(d) ==
    "extends" \notin DOMAIN d
    \/ (d["extends"].kind = "dict" /\ ExtendsInline(d["extends"].d))

\* the keys a step defines itself, `then` and `description` being taken out
\* before the merge
OwnKeys(d) == DOMAIN d \ {"then", "description", "extends"}

ChainKeys(d) == UNION {DOMAIN ExtendsChain(d)[n] : n \in 1..Len(ExtendsChain(d))}

\* the value the innermost `extends` object that defines `k` gives it
InnermostValue(d, k) ==
    LET chain == ExtendsChain(d)
        n == CHOOSE m \in 1..Len(chain) :
                /\ k \in DOMAIN chain[m]
                /\ \A l \in 1..Len(chain) : k \in DOMAIN chain[l] => l <= m
    IN chain[n][k]

=============================================================================
